---- MODULE Spec2Model ----
(***************************************************************************)
(* A model of misskey_emoji_uploader.py: start() and the request helpers   *)
(* it calls, run against a remote instance (emoji registry, drive folders, *)
(* drive files) whose responses are chosen nondeterministically.           *)
(*                                                                         *)
(* File names, emoji names, folder names and the drive path are sequences  *)
(* of one-character strings, so that name derivation and path splitting    *)
(* are computed as the code computes them.                                 *)
(***************************************************************************)
EXTENDS Integers, Sequences, FiniteSets, TLC

\* ------------------------------------------------------------- bounds
\* Longest task list handed to start().
MaxTasks == 3
\* Rate-limit responses the remote gives during one run.
MaxRateLimits == 2
\* Longest file name of the runs that exercise the name derivation.
MaxNameLen == 4

\* ------------------------------------------------------------ strings
\* Code points of the characters the model's names are written with.
Code(c) ==
    CASE c = "-" -> 45
      [] c = "." -> 46
      [] c = "/" -> 47
      [] c = "A" -> 65
      [] c = "_" -> 95
      [] c = "a" -> 97
      [] c = "b" -> 98
      [] c = "d" -> 100
      [] c = "e" -> 101
      [] c = "g" -> 103
      [] c = "p" -> 112

\* str.__lt__ : lexicographic order by code point (the order list.sort uses
\* for paths of one directory).
RECURSIVE StrLess(_, _)
StrLess(s, t) ==
    IF t = <<>> THEN FALSE
    ELSE IF s = <<>> THEN TRUE
    ELSE IF Code(Head(s)) # Code(Head(t)) THEN Code(Head(s)) < Code(Head(t))
    ELSE StrLess(Tail(s), Tail(t))

\* str.find(ch): the first index of ch in s, 0 when absent (1-based here).
RECURSIVE Find(_, _)
Find(s, ch) ==
    IF s = <<>> THEN 0
    ELSE IF Head(s) = ch THEN 1
    ELSE LET r == Find(Tail(s), ch) IN IF r = 0 THEN 0 ELSE r + 1

\* str.rfind(ch): the last index of ch in s, 0 when absent.
RECURSIVE RFind(_, _)
RFind(s, ch) ==
    IF s = <<>> THEN 0
    ELSE IF s[Len(s)] = ch THEN Len(s)
    ELSE RFind(SubSeq(s, 1, Len(s) - 1), ch)

\* str.split(sep): the pieces of s between the occurrences of sep.
RECURSIVE Split(_, _)
Split(s, sep) ==
    LET k == Find(s, sep) IN
    IF k = 0 THEN <<s>>
    ELSE <<SubSeq(s, 1, k - 1)>> \o Split(SubSeq(s, k + 1, Len(s)), sep)

\* PurePath.stem: the name without its last suffix; a name whose only dot is
\* its first or its last character has no suffix.
Stem(name) ==
    LET k == RFind(name, ".") IN
    IF 1 < k /\ k < Len(name) THEN SubSeq(name, 1, k - 1) ELSE name

\* str.lower() on the model's characters.
LowerChar(c) == IF c = "A" THEN "a" ELSE c
Lower(s) == [k \in 1..Len(s) |-> LowerChar(s[k])]

\* str.replace("-", "_").
ReplaceDash(s) == [k \in 1..Len(s) |-> IF s[k] = "-" THEN "_" ELSE s[k]]

\* Mutant of DeriveName: the stem taken as it is, without the split at the
\* first dot.
DeriveNameStemOnly(file) == ReplaceDash(Lower(Stem(file)))

\* emoji_path.stem.split(".")[0].lower().replace("-", "_")
DeriveName(file) == ReplaceDash(Lower(Split(Stem(file), ".")[1]))

\* ------------------------------------------------------------- inputs
\* The local files: "A.p" and "a.g" derive the same name "a"; "b-a.e.p"
\* derives "b_a"; ".e" derives the empty name.
Files ==
    { <<"A", ".", "p">>,
      <<"a", ".", "g">>,
      <<"b", "-", "a", ".", "e", ".", "p">>,
      <<".", "e">> }

\* emoji_path_list.sort(reverse=args.reverse): a list of distinct files in
\* ascending or in descending order.
IsSortedList(s) ==
    \/ \A k \in 1..(Len(s) - 1) : StrLess(s[k], s[k + 1])
    \/ \A k \in 1..(Len(s) - 1) : StrLess(s[k + 1], s[k])

TaskLists ==
    UNION { { s \in [1..n -> Files] : IsSortedList(s) } : n \in 1..MaxTasks }

\* The --drive-path values: none, "d", "d/e", "d/d".
DrivePaths == { <<>>, <<"d">>, <<"d", "/", "e">>, <<"d", "/", "d">> }

\* None, as a folder id, a parent id or a folder record.
None == 0

\* The emoji registries a run may start against (names are unique on the
\* instance).
InitialEmojis ==
    { <<>>,
      << [name |-> <<"a">>, fileId |-> 0] >>,
      << [name |-> <<"b", "_", "a">>, fileId |-> 0] >> }

\* The drive folder trees a run may start against; a folder's id is its
\* position in the sequence.
InitialFolders ==
    { <<>>,
      << [name |-> <<"d">>, parentId |-> None] >>,
      << [name |-> <<"d">>, parentId |-> None],
         [name |-> <<"d">>, parentId |-> None],
         [name |-> <<"e">>, parentId |-> 2] >>,
      << [name |-> <<"d">>, parentId |-> None],
         [name |-> <<"e">>, parentId |-> 1] >> }

\* ---------------------------------------------------------------- state
VARIABLES
    tasks,          \* emoji_path_list, as main() sorted it
    drive_path,     \* the drive_path argument
    emojis,         \* remote: the registered emojis, in order of creation
    folders,        \* remote: the drive folders; a folder's id is its position
    files,          \* remote: the drive files; a file's id is its position
    run,            \* 1 in the first call of start(), 2 in the second
    pc,             \* the line start() has reached
    emoji_dict,     \* the keys of emoji_dict
    seg,            \* create_drive_folder_path: index of the segment in turn
    parent_id,      \* create_drive_folder_path: parent_id
    folder_data,    \* create_drive_folder_path: id of the record in folder_data
    folder_id,      \* start: folder_id
    i,              \* start: index of the task in turn
    file_id,        \* start: file_id of the task in turn
    success_count,  \* start: success_count
    skipped_count,  \* start: skipped_count
    summary,        \* the final log lines, once written
    error,          \* the exception start() ended with, once raised
    rl,             \* rate-limit responses given so far in this run
    log,            \* history: the requests and sleeps of this run, in order
    outcome,        \* history: the outcome of each task taken up in this run
    first           \* history: what the first run ended with

vars ==
    << tasks, drive_path, emojis, folders, files, run, pc, emoji_dict, seg,
       parent_id, folder_data, folder_id, i, file_id, success_count,
       skipped_count, summary, error, rl, log, outcome, first >>

inputs == << tasks, drive_path >>
locals_folder == << seg, parent_id, folder_data >>
counters == << success_count, skipped_count >>

NoError == [type |-> "none", payload |-> "none"]
NoSummary == [written |-> FALSE, total |-> 0, succeeded |-> 0, skipped |-> 0]
NoFirst == [ended |-> FALSE, folder_id |-> None, created |-> 0]

\* path.split("/")
path_split == Split(drive_path, "/")

\* The emoji name of the task in turn (line 335).
emoji_name == DeriveName(tasks[i])

\* One entry of the history: the operation, the index of the task or of the
\* path segment it is for, the name and the id it carries, and the response.
Event(op, idx, name, id, res) ==
    [op |-> op, idx |-> idx, name |-> name, id |-> id, res |-> res]

Sleep == Event("sleep", 0, <<>>, None, "RATE_LIMIT_WAIT")

\* ------------------------------------------------------------- remote
\* The error codes a response may carry besides a rate limit and a duplicate.
OtherError == "INTERNAL_ERROR"
RateLimit == "RATE_LIMIT_EXCEEDED"
Duplicate == "DUPLICATE_NAME"

\* The remote may answer any request with a rate limit, MaxRateLimits times
\* a run at most.
MayRateLimit == rl < MaxRateLimits

\* The names registered on the instance.
RegisteredNames == { emojis[k].name : k \in 1..Len(emojis) }

\* drive/folders: the ids of the folders under parent, in order of id.
RECURSIVE ListingFrom(_, _)
ListingFrom(k, parent) ==
    IF k > Len(folders) THEN <<>>
    ELSE (IF folders[k].parentId = parent THEN <<k>> ELSE <<>>)
         \o ListingFrom(k + 1, parent)

Listing(parent) == ListingFrom(1, parent)

\* ------------------------------------------------------------ helpers
\* Mutant of FindFolder: the scan compares a field that never equals the
\* segment, so no folder is ever found.
FindFolderNone(listing, segment) == None

\* Mutant of FindFolder: the scan has no "break", so the last folder of the
\* name is the one kept.
RECURSIVE FindFolderLast(_, _)
FindFolderLast(listing, segment) ==
    IF listing = <<>> THEN None
    ELSE IF folders[listing[Len(listing)]].name = segment
    THEN listing[Len(listing)]
    ELSE FindFolderLast(SubSeq(listing, 1, Len(listing) - 1), segment)

\* The scan of lines 245-249: the id of the first folder of the listing whose
\* name is the segment, None when there is none.
RECURSIVE FindFolder(_, _)
FindFolder(listing, segment) ==
    IF listing = <<>> THEN None
    ELSE IF folders[Head(listing)].name = segment THEN Head(listing)
    ELSE FindFolder(Tail(listing), segment)

\* Mutant of IsRateLimit: the code compared with another spelling, so that a
\* rate limit is raised like any other error.
IsRateLimitNever(res) == FALSE

\* "RATE_LIMIT_EXCEEDED" test of the retry loops (lines 215 and 293).
IsRateLimit(res) == res = RateLimit

\* Mutant of IsDuplicate: every error of the create response taken for a
\* duplicate ('if "error" in emoji_data: skip').
IsDuplicateAny(res) == TRUE

\* Mutant of IsDuplicate: the code compared with another spelling, so that a
\* duplicate is raised like any other error.
IsDuplicateNever(res) == FALSE

\* "DUPLICATE_NAME" test of start() (line 364).
IsDuplicate(res) == res = Duplicate

\* Mutant of IndexKeys: only the first emoji of the listing is indexed.
IndexKeysFirst(current_emojis) ==
    IF current_emojis = <<>> THEN {} ELSE { current_emojis[1].name }

\* The keys of {emoji["name"]: emoji for emoji in current_emojis} (line 323).
IndexKeys(current_emojis) ==
    { current_emojis[k].name : k \in 1..Len(current_emojis) }

\* Mutant of InIndex: the test of the index itself ("if emoji_dict:") in place
\* of the membership test.
InIndexAny(name) == emoji_dict # {}

\* Mutant of InIndex: the membership test never succeeds (the file name, not
\* the derived name, looked up).
InIndexNone(name) == FALSE

\* Mutant of InIndex: the pre-check asks the instance as it is now, so that the
\* names created during the run count as indexed.
InIndexLive(name) == name \in RegisteredNames

\* Mutant of HasDrivePath: the folder path is resolved whatever drive_path is.
HasDrivePathAlways == TRUE

\* "if drive_path:" (line 326): an empty drive path resolves no folder.
HasDrivePath == drive_path # <<>>

\* "emoji_name in emoji_dict" (line 338).
InIndex(name) == name \in emoji_dict

\* Mutant of SkipTask: "continue" without "skipped_count += 1".
SkipTaskUncounted(kind) ==
    /\ UNCHANGED << skipped_count, success_count >>
    /\ i' = i + 1
    /\ pc' = "task"
    /\ outcome' = Append(outcome, kind)

\* "skipped_count += 1; continue" (lines 339-341 and 365-367): the task ends
\* skipped and the loop goes on to the next one.
SkipTask(kind) ==
    /\ skipped_count' = skipped_count + 1
    /\ success_count' = success_count
    /\ i' = i + 1
    /\ pc' = "task"
    /\ outcome' = Append(outcome, kind)

\* Mutant of CountSuccess: the loop does not move on after a creation, and
\* takes the same file up again.
CountSuccessNoAdvance ==
    /\ success_count' = success_count + 1
    /\ skipped_count' = skipped_count
    /\ i' = i
    /\ pc' = "task"
    /\ outcome' = Append(outcome, "Created")

\* "success_count += 1" and the end of the loop body (lines 370-376).
CountSuccess ==
    /\ success_count' = success_count + 1
    /\ skipped_count' = skipped_count
    /\ i' = i + 1
    /\ pc' = "task"
    /\ outcome' = Append(outcome, "Created")

\* Mutant of AfterSegment: the last folder is fetched whether or not the
\* resolution created a folder ("if folder_data is None" left out).
AfterSegmentAlwaysShow(next_seg, data) ==
    IF next_seg <= Len(path_split)
    THEN /\ pc' = "get_folders"
         /\ folder_id' = folder_id
    ELSE /\ pc' = "show_folder"
         /\ folder_id' = folder_id

\* Lines 254-259 and 328: the folder loop is over once every segment is done;
\* a resolution that created nothing goes on to show the last folder.
AfterSegment(next_seg, data) ==
    IF next_seg <= Len(path_split)
    THEN /\ pc' = "get_folders"
         /\ folder_id' = folder_id
    ELSE IF data = None
    THEN /\ pc' = "show_folder"
         /\ folder_id' = folder_id
    ELSE /\ pc' = "task"
         /\ folder_id' = data

\* raise: start() ends with an exception.
Raise(type, payload) ==
    /\ pc' = "fatal"
    /\ error' = [type |-> type, payload |-> payload]

\* ----------------------------------------------------------------- Init
Init ==
    /\ tasks \in TaskLists
    /\ drive_path \in DrivePaths
    /\ emojis \in InitialEmojis
    /\ folders \in InitialFolders
    /\ files = <<>>
    /\ run = 1
    /\ pc = "list_emojis"
    /\ emoji_dict = {}
    /\ seg = 1
    /\ parent_id = None
    /\ folder_data = None
    /\ folder_id = None
    /\ i = 1
    /\ file_id = None
    /\ success_count = 0
    /\ skipped_count = 0
    /\ summary = NoSummary
    /\ error = NoError
    /\ rl = 0
    /\ log = <<>>
    /\ outcome = <<>>
    /\ first = NoFirst

\* -------------------------------------------------------------- actions
\* The responses of the remote: success, a rate limit, another error.
Responses == {"ok", RateLimit, OtherError}

\* Lines 322-330: emojis_get_current_list() (one GET, no retry loop) and the
\* index; then the branch on drive_path.  A response without "emojis" makes
\* line 121 raise KeyError.
ListEmojis ==
    /\ pc = "list_emojis"
    /\ \E res \in Responses :
        /\ (res = RateLimit) => MayRateLimit
        /\ rl' = IF res = RateLimit THEN rl + 1 ELSE rl
        /\ log' = Append(log, Event("list_emojis", 0, <<>>, None, res))
        /\ IF res = "ok"
           THEN /\ emoji_dict' = IndexKeys(emojis)
                /\ pc' = IF HasDrivePath THEN "get_folders" ELSE "task"
                /\ error' = error
           ELSE /\ Raise("KeyError", "emojis")
                /\ emoji_dict' = emoji_dict
    /\ UNCHANGED << inputs, emojis, folders, files, run, locals_folder,
                    folder_id, i, file_id, counters, summary, outcome, first >>

\* Lines 241-251: drive_get_folders(parent_id) (one POST, no retry loop) and
\* the scan of the listing.  An error response is a dict: the scan takes its
\* key "error" for a folder and f["name"] raises TypeError.
GetFolders ==
    /\ pc = "get_folders"
    /\ \E res \in Responses :
        /\ (res = RateLimit) => MayRateLimit
        /\ rl' = IF res = RateLimit THEN rl + 1 ELSE rl
        /\ log' = Append(log,
                         Event("list_folders", seg, path_split[seg], parent_id, res))
        /\ IF res = "ok"
           THEN LET found == FindFolder(Listing(parent_id), path_split[seg]) IN
                /\ error' = error
                /\ IF found # None
                   THEN /\ parent_id' = found
                        /\ seg' = seg + 1
                        /\ AfterSegment(seg + 1, folder_data)
                   ELSE /\ pc' = "create_folder"
                        /\ UNCHANGED << parent_id, seg, folder_id >>
           ELSE /\ Raise("TypeError", "none")
                /\ UNCHANGED << parent_id, seg, folder_id >>
    /\ UNCHANGED << inputs, emojis, folders, files, run, emoji_dict, folder_data,
                    i, file_id, counters, summary, outcome, first >>

\* Lines 205-225 and 252-253: create_drive_folder(folder, parent_id), one turn
\* of its loop.
CreateFolder ==
    /\ pc = "create_folder"
    /\ \E res \in Responses :
        /\ (res = RateLimit) => MayRateLimit
        /\ LET req == Event("create_folder", seg, path_split[seg], parent_id, res)
               new == Len(folders) + 1
           IN
           IF res # "ok"
           THEN IF IsRateLimit(res)
                THEN /\ log' = log \o << req, Sleep >>
                     /\ rl' = rl + 1
                     /\ UNCHANGED << pc, error, folders, locals_folder, folder_id >>
                ELSE /\ log' = Append(log, req)
                     /\ Raise("RuntimeError", res)
                     /\ UNCHANGED << rl, folders, locals_folder, folder_id >>
           ELSE /\ log' = Append(log, req)
                /\ folders' = Append(folders,
                                     [name |-> path_split[seg], parentId |-> parent_id])
                /\ folder_data' = new
                /\ parent_id' = new
                /\ seg' = seg + 1
                /\ AfterSegment(seg + 1, new)
                /\ UNCHANGED << rl, error >>
    /\ UNCHANGED << inputs, emojis, files, run, emoji_dict, i, file_id, counters,
                    summary, outcome, first >>

\* Lines 256-259 and 328: drive_show_folders(parent_id) (one POST, no retry
\* loop).  An error response has no "id": line 328 raises KeyError.
ShowFolder ==
    /\ pc = "show_folder"
    /\ \E res \in Responses :
        /\ (res = RateLimit) => MayRateLimit
        /\ rl' = IF res = RateLimit THEN rl + 1 ELSE rl
        /\ log' = Append(log, Event("show_folder", 0, <<>>, parent_id, res))
        /\ IF res = "ok"
           THEN /\ folder_data' = parent_id
                /\ folder_id' = parent_id
                /\ pc' = "task"
                /\ error' = error
           ELSE /\ Raise("KeyError", "id")
                /\ UNCHANGED << folder_data, folder_id >>
    /\ UNCHANGED << inputs, emojis, folders, files, run, emoji_dict, seg, parent_id,
                    i, file_id, counters, summary, outcome, first >>

\* Lines 333-341 and 378-385: the head of the task loop, the skip of a name
\* the index holds, and the final log lines once the list is through.
NextTask ==
    /\ pc = "task"
    /\ IF i > Len(tasks)
       THEN /\ pc' = "done"
            /\ summary' = [written |-> TRUE, total |-> Len(tasks),
                           succeeded |-> success_count, skipped |-> skipped_count]
            /\ UNCHANGED << i, counters, outcome >>
       ELSE IF InIndex(emoji_name)
       THEN /\ SkipTask("SkippedIndex")
            /\ UNCHANGED summary
       ELSE /\ pc' = "upload"
            /\ UNCHANGED << i, counters, outcome, summary >>
    /\ UNCHANGED << inputs, emojis, folders, files, run, emoji_dict, locals_folder,
                    folder_id, file_id, error, rl, log, first >>

\* The responses to drive/files/create; any error code but the rate limit is
\* an error like another to the loop.
UploadResponses == Responses \cup {Duplicate}

\* Lines 279-305 and 345-346: drive_upload_file(), one turn of its loop.
Upload ==
    /\ pc = "upload"
    /\ \E res \in UploadResponses :
        /\ (res = RateLimit) => MayRateLimit
        /\ LET req == Event("upload", i, tasks[i], folder_id, res) IN
           IF res # "ok"
           THEN IF IsRateLimit(res)
                THEN /\ log' = log \o << req, Sleep >>
                     /\ rl' = rl + 1
                     /\ UNCHANGED << pc, error, files, file_id, outcome >>
                ELSE /\ log' = Append(log, req)
                     /\ Raise("RuntimeError", res)
                     /\ outcome' = Append(outcome, "Failed")
                     /\ UNCHANGED << rl, files, file_id >>
           ELSE /\ log' = Append(log, req)
                /\ files' = Append(files, [name |-> tasks[i], folderId |-> folder_id])
                /\ file_id' = Len(files) + 1
                /\ pc' = "emoji_add"
                /\ UNCHANGED << rl, error, outcome >>
    /\ UNCHANGED << inputs, emojis, folders, run, emoji_dict, locals_folder,
                    folder_id, i, counters, summary, first >>

\* The responses to admin/emoji/add: the instance registers a name it does not
\* hold and rejects one it holds with DUPLICATE_NAME.
AddResponses ==
    (IF emoji_name \in RegisteredNames THEN {Duplicate} ELSE {"ok"})
        \cup {RateLimit, OtherError}

\* Lines 354-376: emoji_add() (one POST, no retry loop) and what start() makes
\* of the response.
EmojiAdd ==
    /\ pc = "emoji_add"
    /\ \E res \in AddResponses :
        /\ (res = RateLimit) => MayRateLimit
        /\ rl' = IF res = RateLimit THEN rl + 1 ELSE rl
        /\ log' = Append(log, Event("create_emoji", i, emoji_name, file_id, res))
        /\ IF res # "ok"
           THEN IF IsDuplicate(res)
                THEN /\ SkipTask("SkippedCreate")
                     /\ UNCHANGED << emojis, error >>
                ELSE /\ Raise("RuntimeError", res)
                     /\ outcome' = Append(outcome, "Failed")
                     /\ UNCHANGED << i, counters, emojis >>
           ELSE /\ emojis' = Append(emojis, [name |-> emoji_name, fileId |-> file_id])
                /\ CountSuccess
                /\ error' = error
    /\ UNCHANGED << inputs, folders, files, run, emoji_dict, locals_folder,
                    folder_id, file_id, summary, first >>

\* The folders the run has created so far.
FoldersCreated ==
    Cardinality({ k \in 1..Len(log) :
                    log[k].op = "create_folder" /\ log[k].res = "ok" })

\* The script is run a second time on the same files and drive path, against
\* the instance as the first run left it: lines 318-320 and 237-238 again.
StartAgain ==
    /\ pc = "done"
    /\ run = 1
    /\ run' = 2
    /\ first' = [ended |-> TRUE, folder_id |-> folder_id, created |-> FoldersCreated]
    /\ pc' = "list_emojis"
    /\ emoji_dict' = {}
    /\ seg' = 1
    /\ parent_id' = None
    /\ folder_data' = None
    /\ folder_id' = None
    /\ i' = 1
    /\ file_id' = None
    /\ success_count' = 0
    /\ skipped_count' = 0
    /\ summary' = NoSummary
    /\ rl' = 0
    /\ log' = <<>>
    /\ outcome' = <<>>
    /\ UNCHANGED << inputs, emojis, folders, files, error >>

Next ==
    \/ ListEmojis
    \/ GetFolders
    \/ CreateFolder
    \/ ShowFolder
    \/ NextTask
    \/ Upload
    \/ EmojiAdd
    \/ StartAgain

Spec == Init /\ [][Next]_vars

\* Another client of the same drive creates, under the parent the resolver is
\* about to list, a folder of the name the resolver looks for: the listing of
\* line 241 then holds a folder this run did not create.
OtherClientFolder ==
    /\ pc = "get_folders"
    /\ \A k \in 1..Len(folders) :
         ~(folders[k].parentId = parent_id /\ folders[k].name = path_split[seg])
    /\ folders' = Append(folders,
                         [name |-> path_split[seg], parentId |-> parent_id])
    /\ UNCHANGED << inputs, emojis, files, run, pc, emoji_dict, locals_folder,
                    folder_id, i, file_id, counters, summary, error, rl, log,
                    outcome, first >>

SharedNext ==
    \/ Next
    \/ OtherClientFolder

\* start() against a drive that another client writes to as well.
SharedSpec == Init /\ [][SharedNext]_vars

\* One step of start(): the script is sequential and blocking, and every
\* request is answered, so a step that can be taken is taken.
Step ==
    \/ ListEmojis
    \/ GetFolders
    \/ CreateFolder
    \/ ShowFolder
    \/ NextTask
    \/ Upload
    \/ EmojiAdd

\* The runs whose ending is checked: every task list, with no drive path or
\* the path "d/e", against a registry that holds the name "a" and an empty
\* drive.
LiveInit ==
    /\ Init
    /\ emojis # <<>>
    /\ emojis[1].name = <<"a">>
    /\ folders = <<>>
    /\ drive_path \in { <<>>, <<"d", "/", "e">> }

\* start() with its steps taken as long as one is possible; the remote lifts
\* a rate limit after MaxRateLimits rate-limited responses at most.
LiveSpec == LiveInit /\ [][Next]_vars /\ WF_vars(Step)

\* The characters file names are written with in the runs that exercise the
\* name derivation, and the file names: "." and ".." name no file.
Alphabet == {"A", "a", "-", "."}

FileNames ==
    UNION { [1..n -> Alphabet] : n \in 1..MaxNameLen }
        \ { <<".">>, <<".", ".">> }

\* start() on one file of any name, with the drive path "d", against a
\* registry that holds the name "a" and an empty drive.
NameInit ==
    /\ tasks \in { <<f>> : f \in FileNames }
    /\ drive_path = <<"d">>
    /\ emojis = << [name |-> <<"a">>, fileId |-> None] >>
    /\ folders = <<>>
    /\ files = <<>>
    /\ run = 1
    /\ pc = "list_emojis"
    /\ emoji_dict = {}
    /\ seg = 1
    /\ parent_id = None
    /\ folder_data = None
    /\ folder_id = None
    /\ i = 1
    /\ file_id = None
    /\ success_count = 0
    /\ skipped_count = 0
    /\ summary = NoSummary
    /\ error = NoError
    /\ rl = 0
    /\ log = <<>>
    /\ outcome = <<>>
    /\ first = NoFirst

NameSpec == NameInit /\ [][Next]_vars

\* ------------------------------------------------------------ type check
TypeOK ==
    /\ pc \in {"list_emojis", "get_folders", "create_folder", "show_folder",
               "task", "upload", "emoji_add", "done", "fatal"}
    /\ run \in {1, 2}
    /\ i \in 1..(Len(tasks) + 1)
    /\ success_count \in 0..Len(tasks)
    /\ skipped_count \in 0..Len(tasks)
    /\ rl \in 0..MaxRateLimits

\* --------------------------------------------------------------- claims
Last(s) == s[Len(s)]

\* The tasks of the run that ended with the given outcome.
Count(kind) == Cardinality({ t \in 1..Len(outcome) : outcome[t] = kind })

\* The registered emojis of a name.
EmojisNamed(name) == { k \in 1..Len(emojis) : emojis[k].name = name }

\* C1: once start() has completed without a fatal abort, the registry holds
\* exactly one emoji of the derived name of every file of the task list, and
\* no emoji name is registered twice -- whatever the registry held before and
\* also when two files derive the same name.
C1_EachFileOneEmoji ==
    pc = "done" =>
        /\ \A t \in 1..Len(tasks) :
             Cardinality(EmojisNamed(DeriveName(tasks[t]))) = 1
        /\ \A j, k \in 1..Len(emojis) :
             emojis[j].name = emojis[k].name => j = k

\* A run of two files of one derived name ends: the first created, the second
\* rejected by the instance.
C1_Witness ==
    /\ pc = "done"
    /\ Len(tasks) = 2
    /\ tasks[1] # tasks[2]
    /\ DeriveName(tasks[1]) = DeriveName(tasks[2])
    /\ outcome = << "Created", "SkippedCreate" >>

\* C2: every task that ends without a fatal error adds one to exactly one of
\* success_count and skipped_count: with i - 1 tasks through, the two add up to
\* i - 1 (one per created task, one per skipped task), never to more than the
\* length of the list, and to exactly that length once the run has completed.
C2_CountersAccount ==
    /\ success_count = Count("Created")
    /\ skipped_count = Count("SkippedIndex") + Count("SkippedCreate")
    /\ success_count + skipped_count = i - 1
    /\ success_count + skipped_count <= Len(tasks)
    /\ pc = "done" =>
         /\ success_count + skipped_count = Len(tasks)
         /\ summary = [written |-> TRUE, total |-> Len(tasks),
                       succeeded |-> success_count, skipped |-> skipped_count]
    /\ pc # "done" => summary = NoSummary

\* A completed run of three tasks with both counters above zero.
C2_Witness ==
    /\ pc = "done"
    /\ Len(tasks) = 3
    /\ success_count = 2
    /\ skipped_count = 1

\* The tasks taken up so far whose derived name the index holds.
Indexed == { t \in 1..Len(outcome) : DeriveName(tasks[t]) \in emoji_dict }

\* The entries of the history that are the given request of task t.
Requests(op, t) == { k \in 1..Len(log) : log[k].op = op /\ log[k].idx = t }

\* C3: for a task whose derived name is a key of the index built at the start
\* of the run there is no upload and no create-emoji request, and the task ends
\* counted as skipped only; for a task whose name is not in the index, every
\* create-emoji request comes after a successful upload of that task.
C3_IndexedNamesSkipped ==
    /\ \A t \in Indexed :
         /\ Requests("upload", t) = {}
         /\ Requests("create_emoji", t) = {}
         /\ outcome[t] = "SkippedIndex"
    /\ Cardinality(Indexed) = Count("SkippedIndex")
    /\ \A t \in (1..Len(outcome)) \ Indexed : Requests("upload", t) # {}
    /\ \A k \in 1..Len(log) :
         log[k].op = "create_emoji" =>
            /\ log[k].idx \notin Indexed
            /\ \E j \in 1..(k - 1) :
                 /\ log[j].op = "upload"
                 /\ log[j].idx = log[k].idx
                 /\ log[j].res = "ok"

\* The end-to-end example: one task skipped by the index, another uploaded and
\* created, the run complete.
C3_Witness ==
    /\ pc = "done"
    /\ \E t \in Indexed : outcome[t] = "SkippedIndex"
    /\ \E t \in (1..Len(outcome)) \ Indexed :
         /\ outcome[t] = "Created"
         /\ Requests("upload", t) # {}
         /\ Requests("create_emoji", t) # {}

\* C4: a create-emoji response carrying DUPLICATE_NAME, for a task whose name
\* the index does not hold and whose upload succeeded, ends the task skipped:
\* skipped_count goes up by one, success_count stays, nothing is raised, and the
\* loop goes on to the next task.
C4_DuplicateAtCreateSkips ==
    [][ ( /\ pc = "emoji_add"
          /\ Len(log') > Len(log)
          /\ Last(log').op = "create_emoji"
          /\ Last(log').res = Duplicate )
        => /\ ~InIndex(emoji_name)
           /\ file_id = Len(files)
           /\ skipped_count' = skipped_count + 1
           /\ success_count' = success_count
           /\ outcome' = Append(outcome, "SkippedCreate")
           /\ error' = NoError
           /\ pc' = "task"
           /\ i' = i + 1 ]_vars

\* After a duplicate at create time the loop has gone on: the task after it has
\* been uploaded.
C4_Witness ==
    /\ Len(outcome) >= 2
    /\ outcome[2] = "SkippedCreate"
    /\ Requests("upload", 3) # {}
    /\ error = NoError

\* An upload or create-emoji response with an error that is neither a rate
\* limit nor a duplicate name.
IsOtherError(e) ==
    \/ e.op = "upload" /\ e.res \notin {"ok", RateLimit}
    \/ e.op = "create_emoji" /\ e.res \notin {"ok", RateLimit, Duplicate}

\* C5: an upload or create-emoji response with an error that is neither a rate
\* limit nor (for create) a duplicate aborts the run at that task: it is the
\* last request of the run, RuntimeError is raised with the error, neither
\* counter counts the failing task and no summary is written.
C5_OtherErrorAborts ==
    \A k \in 1..Len(log) :
        IsOtherError(log[k]) =>
            /\ k = Len(log)
            /\ pc = "fatal"
            /\ error = [type |-> "RuntimeError", payload |-> log[k].res]
            /\ i = log[k].idx
            /\ success_count + skipped_count = log[k].idx - 1
            /\ outcome[log[k].idx] = "Failed"
            /\ summary = NoSummary

\* The create-emoji request of the second of three tasks fails: the third task
\* is never taken up.
C5_Witness ==
    /\ pc = "fatal"
    /\ Len(tasks) = 3
    /\ log # <<>>
    /\ Last(log).op = "create_emoji"
    /\ Last(log).res = OtherError
    /\ Last(log).idx = 2
    /\ success_count = 1
    /\ Requests("upload", 3) = {}

\* C6: a create-emoji request answered with a rate limit is followed by a
\* backoff sleep and a further attempt, so that the task does not fail and,
\* the next attempt succeeding, ends Created.
C6_RateLimitedCreateRetried ==
    \A k \in 1..Len(log) :
        (log[k].op = "create_emoji" /\ log[k].res = RateLimit) =>
            /\ pc # "fatal"
            /\ k < Len(log)
            /\ log[k + 1] = Sleep
            /\ Len(outcome) >= log[k].idx => outcome[log[k].idx] = "Created"

\* Two entries of the history are the same logical request.
SameRequest(a, b) ==
    a.op = b.op /\ a.idx = b.idx /\ a.name = b.name /\ a.id = b.id

\* The pc of the loop a request of the history belongs to.
LoopOf(e) == IF e.op = "upload" THEN "upload" ELSE "create_folder"

\* The attempts of one logical request, and those answered with a rate limit.
Attempts(e) == { j \in 1..Len(log) : SameRequest(log[j], e) }
RateLimited(e) == { j \in Attempts(e) : log[j].res = RateLimit }

\* C7: in the loops of upload-file and create-folder a rate-limited attempt is
\* followed by one sleep and then by the same request again (same file and
\* folder id, same folder name and parent id); a success is followed by no
\* sleep and by no further attempt, so that n rate limits and a success make
\* n + 1 attempts; any other error is the last request of the run and is
\* raised.  A sleep only ever follows a rate-limited attempt.
C7_RetryLoop ==
    /\ \A k \in 1..Len(log) :
         log[k].op \in {"upload", "create_folder"} =>
            /\ log[k].res = RateLimit =>
                 /\ k + 1 <= Len(log)
                 /\ log[k + 1] = Sleep
                 /\ IF k + 2 <= Len(log)
                    THEN SameRequest(log[k + 2], log[k])
                    ELSE pc = LoopOf(log[k]) /\ error = NoError
            /\ log[k].res = "ok" =>
                 /\ k < Len(log) => log[k + 1] # Sleep
                 /\ \A j \in (k + 1)..Len(log) :
                      ~(log[j].op = log[k].op /\ log[j].idx = log[k].idx)
                 /\ Cardinality(Attempts(log[k])) =
                        Cardinality(RateLimited(log[k])) + 1
                 /\ \A j \in Attempts(log[k]) : j <= k
            /\ log[k].res \notin {"ok", RateLimit} =>
                 /\ k = Len(log)
                 /\ pc = "fatal"
                 /\ error = [type |-> "RuntimeError", payload |-> log[k].res]
    /\ \A k \in 1..Len(log) :
         log[k] = Sleep =>
            /\ k > 1
            /\ log[k - 1].op \in {"upload", "create_folder"}
            /\ log[k - 1].res = RateLimit

\* A folder is created at the second attempt and a file uploaded at the second
\* attempt, each after one rate limit.
C7_Witness ==
    /\ \E k \in 1..Len(log) :
         /\ log[k].op = "create_folder"
         /\ log[k].res = "ok"
         /\ Cardinality(Attempts(log[k])) = 2
    /\ \E k \in 1..Len(log) :
         /\ log[k].op = "upload"
         /\ log[k].res = "ok"
         /\ Cardinality(Attempts(log[k])) = 2

\* C8: a rate limit answered to list-emojis, list-folders or show-folder never
\* ends the run: a sleep follows and the request is made again.
C8_ReadRateLimitRetried ==
    \A k \in 1..Len(log) :
        ( /\ log[k].op \in {"list_emojis", "list_folders", "show_folder"}
          /\ log[k].res = RateLimit ) =>
            /\ pc # "fatal"
            /\ error = NoError
            /\ k < Len(log)
            /\ log[k + 1] = Sleep

\* C9: a second run on the same files, after a first run that completed, makes
\* no upload and no create-emoji request, creates nothing, and ends with every
\* task skipped.
C9_SecondRunSkipsAll ==
    run = 2 =>
        /\ \A k \in 1..Len(log) : log[k].op \notin {"upload", "create_emoji"}
        /\ pc \notin {"upload", "emoji_add"}
        /\ success_count = 0
        /\ Count("Created") = 0
        /\ Count("SkippedIndex") = Len(outcome)
        /\ pc = "done" =>
             /\ skipped_count = Len(tasks)
             /\ summary.succeeded = 0
             /\ summary.skipped = summary.total

\* The second run of three tasks is complete, after a first run that uploaded.
C9_Witness ==
    /\ run = 2
    /\ pc = "done"
    /\ Len(tasks) = 3
    /\ files # <<>>
    /\ skipped_count = 3

\* The resolution of the drive path is over and start() holds its result.
Resolved == pc \in {"task", "upload", "emoji_add", "done"}

\* C10: resolving the same path in two runs in sequence creates at most one
\* folder per segment over both, the second resolution makes no create-folder
\* request, and both return the same folder id.
C10_ResolutionIdempotent ==
    /\ \A j, k \in 1..Len(log) :
         ( /\ log[j].op = "create_folder" /\ log[j].res = "ok"
           /\ log[k].op = "create_folder" /\ log[k].res = "ok"
           /\ log[j].idx = log[k].idx ) => j = k
    /\ (drive_path # <<>> /\ Resolved) => folder_id \in 1..Len(folders)
    /\ run = 2 =>
         /\ \A k \in 1..Len(log) : log[k].op # "create_folder"
         /\ pc # "create_folder"
         /\ first.created <= (IF drive_path = <<>> THEN 0 ELSE Len(path_split))
         /\ Resolved => folder_id = first.folder_id

\* The first resolution created both segments of the path; the second one found
\* them and ended with show-folder.
C10_Witness ==
    /\ run = 2
    /\ Resolved
    /\ first.created = 2
    /\ folder_id = first.folder_id
    /\ folder_id # None
    /\ \E k \in 1..Len(log) : log[k].op = "show_folder" /\ log[k].res = "ok"

\* C11: the record create_drive_folder_path returns is that of the folder of the
\* last path segment: its id, which start() uploads into, is the parent id
\* adopted for the last segment, whatever the listings held.
C11_ReturnsLastSegment ==
    (drive_path # <<>> /\ Resolved) => folder_id = parent_id

\* The upload and create-emoji requests of the history.
IsTaskRequest(e) == e.op \in {"upload", "create_emoji"}

\* C12: the tasks are processed one at a time in the order of the list: every
\* new upload or create-emoji request (a retry included) is for the file at the
\* position that follows the tasks already ended, no earlier request is for a
\* later position, and an upload carries the file the list holds there.
C12_TasksInListOrder ==
    [][ \A k \in (Len(log) + 1)..Len(log') :
          IsTaskRequest(log'[k]) =>
             /\ log'[k].idx = Len(outcome) + 1
             /\ log'[k].idx \in 1..Len(tasks)
             /\ \A j \in 1..Len(log) :
                  IsTaskRequest(log[j]) => log[j].idx <= log'[k].idx
             /\ log'[k].op = "upload" => log'[k].name = tasks[log'[k].idx]
             /\ tasks' = tasks ]_vars

\* Three files, in descending order, have each been uploaded, the second one
\* after a rate-limited attempt.
C12_Witness ==
    /\ Len(tasks) = 3
    /\ StrLess(tasks[3], tasks[2])
    /\ StrLess(tasks[2], tasks[1])
    /\ \A t \in 1..3 : \E k \in Requests("upload", t) : log[k].res = "ok"
    /\ \E k \in Requests("upload", 2) : log[k].res = RateLimit

\* The run has ended: with its final log lines, or with an exception.
Ended ==
    \/ pc = "done" /\ summary.written /\ error = NoError
    \/ pc = "fatal" /\ error # NoError /\ ~summary.written

\* C13: with every rate-limited request answered otherwise in the end, every
\* run ends, with its summary or with an error; and the retry loops themselves
\* hold no bound: in the loop of upload-file or create-folder, whenever the
\* remote may still answer with a rate limit, the step that sleeps and stays in
\* the loop, with no summary and no error, is possible.
C13_EndsUnlessRateLimitedForever ==
    /\ []<>Ended
    /\ []((pc = "upload" /\ MayRateLimit) =>
            ENABLED (Upload /\ pc' = "upload" /\ Last(log') = Sleep
                        /\ summary' = NoSummary /\ error' = NoError))
    /\ []((pc = "create_folder" /\ MayRateLimit) =>
            ENABLED (CreateFolder /\ pc' = "create_folder" /\ Last(log') = Sleep
                        /\ summary' = NoSummary /\ error' = NoError))

\* A run has ended with its summary after the remote rate-limited an upload as
\* often as it may.
C13_Witness ==
    /\ Ended
    /\ pc = "done"
    /\ rl = MaxRateLimits
    /\ \E t \in 1..Len(tasks) :
         Cardinality({ k \in Requests("upload", t) : log[k].res = RateLimit })
            = MaxRateLimits

\* The position of the first "." of a name, one past its end when it has none.
FirstDot(s) ==
    IF \E k \in 1..Len(s) : s[k] = "."
    THEN CHOOSE k \in 1..Len(s) :
            s[k] = "." /\ \A j \in 1..(k - 1) : s[j] # "."
    ELSE Len(s) + 1

\* The name the documentation gives a file: what stands before its first ".",
\* in lower case, with "_" for every "-".
Documented(file) ==
    [k \in 1..(FirstDot(file) - 1) |->
        CASE file[k] = "A" -> "a"
          [] file[k] = "-" -> "_"
          [] OTHER -> file[k]]

\* C14: the emoji name is a function of the file name alone: the part before
\* its first ".", lower-cased, with "_" for "-" ("A-a.p" gives "a_a", "a.A.-"
\* gives "a"), so that it holds no ".", no "-" and no upper-case letter; it is
\* the name the create-emoji request carries and the name the index is asked
\* for, so that a file is skipped by the index exactly when its documented
\* name is registered.
C14_NameDerivation ==
    /\ DeriveName(<<"A", "-", "a", ".", "p">>) = <<"a", "_", "a">>
    /\ DeriveName(<<"a", ".", "A", ".", "-">>) = <<"a">>
    /\ \A t \in 1..Len(tasks) :
         /\ DeriveName(tasks[t]) = Documented(tasks[t])
         /\ \A k \in 1..Len(DeriveName(tasks[t])) :
              DeriveName(tasks[t])[k] \notin {".", "-", "A"}
    /\ \A k \in 1..Len(log) :
         log[k].op = "create_emoji" => log[k].name = Documented(tasks[log[k].idx])
    /\ \A k \in 1..Len(emojis) :
         emojis[k].fileId # None => emojis[k].name = Documented(files[emojis[k].fileId].name)
    /\ \A t \in 1..Len(outcome) :
         outcome[t] = "SkippedIndex" <=> Documented(tasks[t]) \in emoji_dict

\* The file "A-.a" has been registered as "a_", and the file "A.-." has been
\* skipped for the registered name "a".
C14_Witness ==
    \/ /\ tasks = << <<"A", "-", ".", "a">> >>
       /\ outcome = << "Created" >>
       /\ Last(emojis).name = <<"a", "_">>
    \/ /\ tasks = << <<"A", ".", "-", ".">> >>
       /\ outcome = << "SkippedIndex" >>

\* The positions, in the listing under the current parent, of the folders whose
\* name is the segment in turn.
Matches ==
    { k \in 1..Len(Listing(parent_id)) :
        folders[Listing(parent_id)[k]].name = path_split[seg] }

\* C15: for every segment the listing of the current parent is asked for and
\* answered before any create-folder request for it: the resolver turns to
\* create-folder only from an answered listing that holds no folder of exactly
\* the segment's name, and every create-folder request is for the segment and
\* parent of that listing; when the listing holds such folders, the first of
\* them in listing order becomes the parent and nothing is created.
C15_ListBeforeCreate ==
    [][ /\ ( /\ pc = "get_folders"
             /\ Len(log') > Len(log)
             /\ Last(log').res = "ok" ) =>
               IF Matches = {}
               THEN /\ pc' = "create_folder"
                    /\ parent_id' = parent_id
                    /\ seg' = seg
               ELSE /\ parent_id' =
                         Listing(parent_id)[CHOOSE k \in Matches :
                                              \A j \in Matches : k <= j]
                    /\ seg' = seg + 1
                    /\ pc' # "create_folder"
                    /\ folders' = folders
        /\ (pc' = "create_folder" /\ pc # "create_folder") =>
               /\ pc = "get_folders"
               /\ Last(log') = Event("list_folders", seg', path_split[seg'],
                                     parent_id', "ok")
               /\ Matches = {}
        /\ \A k \in (Len(log) + 1)..Len(log') :
               log'[k].op = "create_folder" =>
                  /\ pc = "create_folder"
                  /\ log'[k].idx = seg
                  /\ log'[k].name = path_split[seg]
                  /\ log'[k].id = parent_id
                  /\ \E j \in 1..Len(log) :
                       /\ log[j].op = "list_folders"
                       /\ log[j].res = "ok"
                       /\ log[j].idx = seg
                       /\ log[j].id = parent_id ]_vars

\* The root holds two folders "d": the first of the listing has become the
\* parent, and nothing was created for the segment.
C15_Witness ==
    /\ Len(folders) >= 2
    /\ folders[1].name = <<"d">> /\ folders[1].parentId = None
    /\ folders[2].name = <<"d">> /\ folders[2].parentId = None
    /\ seg >= 2
    /\ \E k \in 1..Len(log) :
         log[k] = Event("list_folders", 1, <<"d">>, None, "ok")
    /\ \A k \in 1..Len(log) : ~(log[k].op = "create_folder" /\ log[k].idx = 1)
    /\ (seg = 2 => parent_id = 1)
    /\ pc \in {"get_folders", "show_folder"}

\* The requests of the given operation in the history, and those of them that
\* were answered with success.
Issued(op) == { k \in 1..Len(log) : log[k].op = op }
Succeeded(op) == { k \in Issued(op) : log[k].res = "ok" }

\* C16: a completed resolution of a path of N segments has made exactly N
\* list-folders requests, one per segment, at most one create-folder success
\* per segment (for the parent its listing was asked for), and one show-folder
\* request exactly when it created no folder at all; a resolution that created
\* a folder makes no show-folder request.
C16_ResolutionRequests ==
    drive_path # <<>> =>
        /\ \A k \in Issued("show_folder") : FoldersCreated = 0
        /\ Cardinality(Issued("show_folder")) <= 1
        /\ \A s \in 1..Len(path_split) :
             /\ Cardinality(Requests("list_folders", s)) <= 1
             /\ Cardinality(Requests("create_folder", s) \cap Succeeded("create_folder")) <= 1
             /\ \A k \in Requests("create_folder", s) :
                  \E j \in Requests("list_folders", s) :
                     j < k /\ log[j].res = "ok" /\ log[j].id = log[k].id
        /\ Resolved =>
             /\ Cardinality(Issued("list_folders")) = Len(path_split)
             /\ Succeeded("list_folders") = Issued("list_folders")
             /\ \A s \in 1..Len(path_split) :
                  Cardinality(Requests("list_folders", s)) = 1
             /\ Cardinality(Issued("show_folder")) =
                    (IF FoldersCreated = 0 THEN 1 ELSE 0)

\* A path of two segments is resolved: the first was found, the second was
\* created, and no show-folder request was made.
C16_Witness ==
    /\ Resolved
    /\ Len(path_split) = 2
    /\ Requests("create_folder", 1) = {}
    /\ Requests("create_folder", 2) \cap Succeeded("create_folder") # {}
    /\ Issued("show_folder") = {}
    /\ Cardinality(Issued("list_folders")) = 2

\* The names the instance held when the run began: the emojis created since
\* are the last ones of the registry.
NamesAtStart ==
    { emojis[k].name : k \in 1..(Len(emojis) - Count("Created")) }

\* C17: the first request of a run is its one list-emojis request, and no
\* other request of the run is a list-emojis; the index is empty until that
\* request is answered and afterwards holds the names the instance had at the
\* start of the run, whatever the run has created since; no step of the run
\* changes it once built; a task whose derived name an earlier task of the run
\* has created is not skipped by the pre-check: it is uploaded, and if its
\* create request is answered it ends skipped by the duplicate signal.
C17_IndexBuiltOnce ==
    /\ [](/\ log # <<>> =>
               /\ log[1].op = "list_emojis"
               /\ \A k \in 2..Len(log) : log[k].op # "list_emojis"
          /\ emoji_dict = (IF log # <<>> /\ log[1].res = "ok"
                           THEN NamesAtStart ELSE {})
          /\ \A t1, t2 \in 1..Len(outcome) :
               (/\ t1 < t2
                /\ outcome[t1] = "Created"
                /\ DeriveName(tasks[t1]) = DeriveName(tasks[t2])) =>
                   /\ outcome[t2] \in {"SkippedCreate", "Failed"}
                   /\ Requests("upload", t2) # {}
                   /\ \A k \in Requests("create_emoji", t2) :
                        log[k].res = Duplicate => outcome[t2] = "SkippedCreate")
    /\ [][(log # <<>> /\ log[1].res = "ok" /\ run' = run) =>
              emoji_dict' = emoji_dict]_vars

\* Three tasks: the first is created, the second has the same derived name
\* and is uploaded and then skipped at create time, while the index still
\* lacks the name; the third is created as well.
C17_Witness ==
    /\ pc = "done"
    /\ Len(tasks) = 3
    /\ DeriveName(tasks[1]) = DeriveName(tasks[2])
    /\ outcome = << "Created", "SkippedCreate", "Created" >>
    /\ DeriveName(tasks[1]) \notin emoji_dict
    /\ DeriveName(tasks[1]) \in RegisteredNames
    /\ \E k \in Requests("upload", 2) : log[k].res = "ok"

\* The three folder operations of the remote.
FolderOps == {"list_folders", "create_folder", "show_folder"}

\* C18: a run without a drive path makes no list-folders, create-folder or
\* show-folder request, no step of it changes the folder tree, its folder id
\* stays null, and every upload request it makes carries the null folder id,
\* so that every file it uploads lies in the root.
C18_NoPathNoFolderRequests ==
    /\ [](drive_path = <<>> =>
            /\ \A k \in 1..Len(log) : log[k].op \notin FolderOps
            /\ folder_id = None
            /\ \A k \in Issued("upload") : log[k].id = None
            /\ \A f \in 1..Len(files) : files[f].folderId = None)
    /\ [][drive_path = <<>> => folders' = folders]_vars

\* A run without a drive path, on a drive that has folders, has uploaded a
\* file and created its emoji, and is through.
C18_Witness ==
    /\ drive_path = <<>>
    /\ folders # <<>>
    /\ pc = "done"
    /\ Succeeded("upload") # {}
    /\ Count("Created") >= 1
    /\ files # <<>>

\* A structured error that is not a rate limit, whatever the operation; the
\* duplicate signal of create-emoji is not one of them, a skip being what the
\* run makes of it.
IsRemoteError(e) ==
    /\ e.op # "sleep"
    /\ e.res \notin {"ok", RateLimit}
    /\ ~(e.op = "create_emoji" /\ e.res = Duplicate)

\* C19: a response of any operation, list-emojis, list-folders and
\* show-folder included, with an error that is not a rate limit ends the run
\* there: it is the last request of the run, and the run is aborted by a
\* RuntimeError that carries the error the remote returned.
C19_RemoteErrorSurfaced ==
    \A k \in 1..Len(log) :
        IsRemoteError(log[k]) =>
            /\ k = Len(log)
            /\ pc = "fatal"
            /\ error = [type |-> "RuntimeError", payload |-> log[k].res]

\* The files the run has uploaded: the last ones of the drive, one per upload
\* request answered with success.
UploadedFiles ==
    (Len(files) - Cardinality(Succeeded("upload")) + 1)..Len(files)

\* The uploaded files of the run that no emoji refers to.
OrphanFiles ==
    { f \in UploadedFiles : \A e \in 1..Len(emojis) : emojis[e].fileId # f }

\* A file is uploaded and its create-emoji request is still to be made, or
\* was answered with a fatal error.
CreatePending ==
    \/ pc = "emoji_add"
    \/ /\ pc = "fatal"
       /\ log # <<>>
       /\ Last(log).op = "create_emoji"

\* C20: the number of files the run has uploaded is success_count plus the
\* number of create-time duplicate skips (skipped_count less the skips of the
\* pre-check), plus one when a create-emoji request is pending or has failed
\* fatally; no upload request was made for a task the pre-check skipped; and
\* when the run has completed, the uploaded files that no emoji refers to are
\* as many as the create-time duplicate skips.
C20_UploadAccounting ==
    /\ Count("SkippedCreate") = skipped_count - Count("SkippedIndex")
    /\ Cardinality(Succeeded("upload")) =
          success_count + (skipped_count - Count("SkippedIndex"))
            + (IF CreatePending THEN 1 ELSE 0)
    /\ Cardinality(UploadedFiles) = Cardinality(Succeeded("upload"))
    /\ \A t \in 1..Len(outcome) :
          outcome[t] = "SkippedIndex" => Requests("upload", t) = {}
    /\ pc = "done" =>
          Cardinality(OrphanFiles) = skipped_count - Count("SkippedIndex")

\* A completed run of three tasks: one created, one skipped at create time,
\* one skipped by the pre-check; two files were uploaded and one of them is
\* an orphan.
C20_Witness ==
    /\ pc = "done"
    /\ Count("Created") = 1
    /\ Count("SkippedCreate") = 1
    /\ Count("SkippedIndex") = 1
    /\ Cardinality(Succeeded("upload")) = 2
    /\ Cardinality(OrphanFiles) = 1

====
